---------------------------- MODULE Spec2Model ----------------------------
(***************************************************************************)
(* Model of miden-lib/src/transaction/mod.rs: the host side of the data   *)
(* contract around one execution of the transaction kernel.               *)
(*                                                                         *)
(*   build_input_stack       context -> StackInputs                       *)
(*   build_output_stack      (FAH, CNC) -> StackOutputs                   *)
(*   parse_output_stack      StackOutputs -> (FAH, CNC) | error           *)
(*   from_transaction_parts  (StackOutputs, AdviceMap, notes)             *)
(*                              -> TransactionOutputs | error             *)
(*                                                                         *)
(* A Felt is modelled by its canonical value (a natural number), a Word   *)
(* or Digest by a 4-tuple of Felts.  A Rust Result is a record with a     *)
(* field tag: "Ok", "Err" (with kind and the payload) or "Panic" (an      *)
(* expect()/assert that aborts instead of returning).                     *)
(***************************************************************************)
EXTENDS Integers, Sequences, FiniteSets, TLC

VARIABLES pc, args, stack, adv_map, output_notes, result

vars == <<pc, args, stack, adv_map, output_notes, result>>

---------------------------------------------------------------------------
(* Bounds of the model *)

\* Felt values used for arbitrary stack words and as advice data seeds: 0..MaxFelt
MaxFelt == 1
\* Number of distinct non-zero digests
MaxDigest == 2
\* Kernel procedure counts: 0..MaxKernelProcs, and the same range above 2^16 - 1
MaxKernelProcs == 3
\* Account ids: 7 .. 7 + MaxAccount
MaxAccount == 1
\* Advice entries hold up to ACCT_DATA_MEM_SIZE + MaxExtraWords whole words
MaxExtraWords == 1
\* Note identifiers: 1..MaxNoteId
MaxNoteId == 2

---------------------------------------------------------------------------
(* Program constants *)

\* A Word holds 4 field elements (the N of group_slice_elements::<Felt, 4>)
WORD_SIZE == 4
\* StackOutputs pads the stack to the 16 elements of the stack top
STACK_TOP_SIZE == 16
\* `kernel.0 as u16` keeps the low 16 bits
U16_MODULUS == 65536
\* Word indices of the two commitments on the output stack: Stack: [CNC, FAH]
OUTPUT_NOTES_COMMITMENT_WORD_IDX == 0
FINAL_ACCOUNT_HASH_WORD_IDX == 1
\* Number of words of an account stub in the advice data
ACCT_DATA_MEM_SIZE == 4

EMPTY_WORD == <<0, 0, 0, 0>>

\* Option
None == [tag |-> "None"]

Some(v) == [tag |-> "Some", val |-> v]

---------------------------------------------------------------------------
(* Vec helpers *)

\* Vec::reverse
Reverse(s) == [i \in 1..Len(s) |-> s[Len(s) + 1 - i]]

\* Vec::resize(n, ZERO) of a vector no longer than n
PadZero(s, n) == [i \in 1..n |-> IF i <= Len(s) THEN s[i] ELSE 0]


---------------------------------------------------------------------------
(* Input domains *)

FeltVals == 0..MaxFelt

\* Every word over FeltVals
Words == {<<a, b, c, d>> : a \in FeltVals, b \in FeltVals, c \in FeltVals, d \in FeltVals}

\* The i-th non-zero digest: four distinct elements, distinct from every other digest's
DigestOf(i) == <<4 * i - 3, 4 * i - 2, 4 * i - 1, 4 * i>>

Digests == {EMPTY_WORD} \cup {DigestOf(i) : i \in 1..MaxDigest}

AccountIds == 7..(7 + MaxAccount)

\* usize values of kernel.0, below and above the u16 range
KernelProcLens == (0..MaxKernelProcs) \cup {U16_MODULUS - 1 + k : k \in 0..MaxKernelProcs}

---------------------------------------------------------------------------
(* vm::StackInputs and vm::StackOutputs, as used by this file *)

\* StackInputs::new(values): the values are reversed into a stack, so that the
\* element appended last is on top (the doc comment of build_input_stack lists
\* the stack top first: BLOCK_HASH ... KERNEL_HASH).
StackInputs_new(values) == [tag |-> "Ok", values |-> Reverse(values)]

\* StackOutputs::new(stack, overflow_addrs): the stack is padded with ZEROs to
\* the stack top size.
StackOutputs_new(outputs, overflow) ==
    [tag |-> "Ok",
     stack |-> PadZero(outputs, STACK_TOP_SIZE),
     overflow_addrs |-> overflow]

\* StackOutputs::get_stack_word(idx): the four elements starting at the 0-based
\* offset idx, reversed (a word [a, b, c, d] lies on the stack as [d, c, b, a]);
\* None when the stack is not that deep.
get_stack_word(s, idx) ==
    IF idx + WORD_SIZE <= Len(s.stack)
    THEN Some(<<s.stack[idx + 4], s.stack[idx + 3], s.stack[idx + 2], s.stack[idx + 1]>>)
    ELSE None

\* StackOutputs::has_overflow
has_overflow(s) == s.overflow_addrs # <<>>

---------------------------------------------------------------------------
(* STACK INPUTS / OUTPUTS *)

\* Felt::from(kernel.0 as u16)
kernel_procs_len(n) == n % U16_MODULUS

\* Mutant of build_input_stack: the initial account hash is appended before the
\* input notes hash.
build_input_stack_swapped(acct_id, init_acct_hash, input_notes_hash, block_hash, kernel) ==
    LET inputs0 == kernel[2]
        inputs1 == Append(inputs0, kernel_procs_len(kernel[1]))
        inputs2 == inputs1 \o init_acct_hash
        inputs3 == inputs2 \o input_notes_hash
        inputs4 == Append(inputs3, acct_id)
        inputs5 == inputs4 \o block_hash
    IN  StackInputs_new(inputs5)

build_input_stack(acct_id, init_acct_hash, input_notes_hash, block_hash, kernel) ==
    LET inputs0 == kernel[2]
        inputs1 == Append(inputs0, kernel_procs_len(kernel[1]))
        inputs2 == inputs1 \o input_notes_hash
        inputs3 == inputs2 \o init_acct_hash
        inputs4 == Append(inputs3, acct_id)
        inputs5 == inputs4 \o block_hash
    IN  StackInputs_new(inputs5)

\* Mutant of build_output_stack: the outputs are not reversed.
build_output_stack_noReverse(final_acct_hash, output_notes_hash) ==
    LET outputs0 == final_acct_hash \o output_notes_hash
    IN  StackOutputs_new(outputs0, <<>>)

build_output_stack(final_acct_hash, output_notes_hash) ==
    LET outputs0 == final_acct_hash \o output_notes_hash
        outputs1 == Reverse(outputs0)
    IN  StackOutputs_new(outputs1, <<>>)

OutputStackInvalid(msg) == [tag |-> "Err", kind |-> "OutputStackInvalid", msg |-> msg]

Panic(msg) == [tag |-> "Panic", msg |-> msg]

\* Mutant of parse_output_stack: the fourth word is not checked.
parse_output_stack_noFourth(s) ==
    LET output_notes_hash == get_stack_word(s, OUTPUT_NOTES_COMMITMENT_WORD_IDX * 4)
        final_account_hash == get_stack_word(s, FINAL_ACCOUNT_HASH_WORD_IDX * 4)
        third == get_stack_word(s, 8)
    IN  IF output_notes_hash = None THEN Panic("first word missing")
        ELSE IF final_account_hash = None THEN Panic("second word missing")
        ELSE IF third = None THEN Panic("third word missing")
        ELSE IF third.val # EMPTY_WORD
             THEN OutputStackInvalid("Third word on output stack should consist only of ZEROs")
        ELSE IF has_overflow(s)
             THEN OutputStackInvalid("Output stack should not have overflow addresses")
        ELSE [tag |-> "Ok",
              final_account_hash |-> final_account_hash.val,
              output_notes_hash |-> output_notes_hash.val]

parse_output_stack(s) ==
    LET output_notes_hash == get_stack_word(s, OUTPUT_NOTES_COMMITMENT_WORD_IDX * 4)
        final_account_hash == get_stack_word(s, FINAL_ACCOUNT_HASH_WORD_IDX * 4)
        third == get_stack_word(s, 8)
        fourth == get_stack_word(s, 12)
    IN  IF output_notes_hash = None THEN Panic("first word missing")
        ELSE IF final_account_hash = None THEN Panic("second word missing")
        ELSE IF third = None THEN Panic("third word missing")
        ELSE IF third.val # EMPTY_WORD
             THEN OutputStackInvalid("Third word on output stack should consist only of ZEROs")
        ELSE IF fourth = None THEN Panic("fourth word missing")
        ELSE IF fourth.val # EMPTY_WORD
             THEN OutputStackInvalid("Fourth word on output stack should consist only of ZEROs")
        ELSE IF has_overflow(s)
             THEN OutputStackInvalid("Output stack should not have overflow addresses")
        ELSE [tag |-> "Ok",
              final_account_hash |-> final_account_hash.val,
              output_notes_hash |-> output_notes_hash.val]

---------------------------------------------------------------------------
(* The callers of the stack builders and of the stack parser *)

NoArgs == [op |-> "none"]

NoMap == [k \in {} |-> <<>>]

\* The stack outputs a VM execution can hand over: any contents of the four
\* words of the stack top, with or without overflow addresses.  The two
\* commitment words range over the digests, the two words that must be clean
\* over every word.
RawStackOutputs ==
    {[tag |-> "Ok", stack |-> Reverse(fah \o cnc) \o c2 \o c3, overflow_addrs |-> ov] :
        fah \in Digests, cnc \in Digests, c2 \in Words, c3 \in Words,
        ov \in {<<>>, <<1>>}}

StackInit ==
    /\ pc = "init"
    /\ args = NoArgs
    /\ stack = None
    /\ adv_map = NoMap
    /\ output_notes = <<>>
    /\ result = None

\* A caller builds the public inputs of a transaction.
BuildInputStack ==
    /\ pc = "init"
    /\ \E acct_id \in AccountIds, init_acct_hash \in Digests, input_notes_hash \in Digests,
          block_hash \in Digests, n \in KernelProcLens, kernel_hash \in Digests :
          /\ args' = [op |-> "build_input_stack", acct_id |-> acct_id,
                      init_acct_hash |-> init_acct_hash,
                      input_notes_hash |-> input_notes_hash,
                      block_hash |-> block_hash, kernel |-> <<n, kernel_hash>>]
          /\ result' = build_input_stack(acct_id, init_acct_hash, input_notes_hash,
                                         block_hash, <<n, kernel_hash>>)
    /\ pc' = "input_built"
    /\ UNCHANGED <<stack, adv_map, output_notes>>

\* A caller builds the expected stack outputs from two commitments.
BuildOutputStack ==
    /\ pc = "init"
    /\ \E final_acct_hash \in Words \cup Digests, output_notes_hash \in Words \cup Digests :
          /\ args' = [op |-> "build_output_stack", final_acct_hash |-> final_acct_hash,
                      output_notes_hash |-> output_notes_hash]
          /\ stack' = build_output_stack(final_acct_hash, output_notes_hash)
    /\ pc' = "output_built"
    /\ UNCHANGED <<adv_map, output_notes, result>>

\* The VM hands over the stack outputs of an execution.
ExecuteProgram ==
    /\ pc = "init"
    /\ \E s \in RawStackOutputs : stack' = s
    /\ args' = [op |-> "execute"]
    /\ pc' = "executed"
    /\ UNCHANGED <<adv_map, output_notes, result>>

ParseOutputStack ==
    /\ pc \in {"output_built", "executed"}
    /\ result' = parse_output_stack(stack)
    /\ pc' = "parsed"
    /\ UNCHANGED <<args, stack, adv_map, output_notes>>

InputNext == BuildInputStack

InputSpec == StackInit /\ [][InputNext]_vars

StackNext == BuildOutputStack \/ ExecuteProgram \/ ParseOutputStack

StackSpec == StackInit /\ [][StackNext]_vars

---------------------------------------------------------------------------
(* Collaborators of the transaction output parser *)

\* AdviceMap::get
AdviceMap_get(m, key) == IF key \in DOMAIN m THEN Some(m[key]) ELSE None

\* utils::group_slice_elements::<Felt, 4>: reinterprets the flat slice as words.
\* It asserts that the length is divisible by 4 and aborts otherwise; it has no
\* error value to return.
group_slice_elements(source) ==
    IF Len(source) % WORD_SIZE # 0
    THEN Panic("source length must be divisible by 4")
    ELSE [tag |-> "Ok",
          val |-> [w \in 1..(Len(source) \div WORD_SIZE) |->
                      <<source[4 * w - 3], source[4 * w - 2],
                        source[4 * w - 1], source[4 * w]>>]]

\* outputs::parse_final_account_stub: decodes the stub from exactly
\* ACCT_DATA_MEM_SIZE words and fails on any other word count.
parse_final_account_stub(elements) ==
    IF Len(elements) # ACCT_DATA_MEM_SIZE
    THEN [tag |-> "Err", kind |-> "StubDataIncorrectLength",
          actual |-> Len(elements), expected |-> ACCT_DATA_MEM_SIZE]
    ELSE [tag |-> "Ok", val |-> [words |-> elements]]

RECURSIVE NotesSum(_, _)
NotesSum(notes, i) ==
    IF i > Len(notes) THEN 0 ELSE i * notes[i] + NotesSum(notes, i + 1)

\* OutputNotes::commitment: the zero word for no notes, otherwise a hash of the
\* notes in their order (here a digest chosen by a position-weighted sum).
build_output_notes_commitment(notes) ==
    IF notes = <<>> THEN EMPTY_WORD
    ELSE DigestOf(1 + (NotesSum(notes, 1) % MaxDigest))

\* OutputNotes::new: fails on a note that occurs twice, otherwise keeps the
\* notes with their commitment.
OutputNotes_new(notes) ==
    IF \E i \in 1..Len(notes) : \E j \in 1..Len(notes) : i < j /\ notes[i] = notes[j]
    THEN LET j == CHOOSE j \in 1..Len(notes) :
                     /\ \E i \in 1..(j - 1) : notes[i] = notes[j]
                     /\ \A k \in 1..(j - 1) : \A i \in 1..(k - 1) : notes[i] # notes[k]
         IN  [tag |-> "Err", kind |-> "DuplicateOutputNote", id |-> notes[j]]
    ELSE [tag |-> "Ok",
          val |-> [notes |-> notes, commitment |-> build_output_notes_commitment(notes)]]

---------------------------------------------------------------------------
(* TRANSACTION OUTPUT PARSER *)

\* Mutant of from_transaction_parts: the notes are validated before the final
\* account data is looked up.
from_transaction_parts_notesFirst(s, m, notes) ==
    LET parsed == parse_output_stack(s)
    IN  IF parsed.tag # "Ok" THEN parsed
        ELSE
        LET notes_res == OutputNotes_new(notes)
            entry == AdviceMap_get(m, parsed.final_account_hash)
        IN  IF notes_res.tag # "Ok" THEN notes_res
            ELSE IF entry = None
            THEN [tag |-> "Err", kind |-> "FinalAccountDataNotFound"]
            ELSE
            LET final_account_data == group_slice_elements(entry.val)
            IN  IF final_account_data.tag # "Ok" THEN final_account_data
                ELSE
                LET account == parse_final_account_stub(final_account_data.val)
                IN  IF account.tag # "Ok"
                    THEN [tag |-> "Err", kind |-> "FinalAccountStubDataInvalid",
                          cause |-> account]
                    ELSE IF parsed.output_notes_hash # notes_res.val.commitment
                    THEN [tag |-> "Err",
                          kind |-> "OutputNotesCommitmentInconsistent",
                          expected |-> parsed.output_notes_hash,
                          actual |-> notes_res.val.commitment]
                    ELSE [tag |-> "Ok",
                          account |-> account.val,
                          output_notes |-> notes_res.val]

\* Mutant of from_transaction_parts: the two commitments of the mismatch error
\* are passed in the other order.
from_transaction_parts_swappedPayload(s, m, notes) ==
    LET parsed == parse_output_stack(s)
    IN  IF parsed.tag # "Ok" THEN parsed
        ELSE
        LET entry == AdviceMap_get(m, parsed.final_account_hash)
        IN  IF entry = None
            THEN [tag |-> "Err", kind |-> "FinalAccountDataNotFound"]
            ELSE
            LET final_account_data == group_slice_elements(entry.val)
            IN  IF final_account_data.tag # "Ok" THEN final_account_data
                ELSE
                LET account == parse_final_account_stub(final_account_data.val)
                IN  IF account.tag # "Ok"
                    THEN [tag |-> "Err", kind |-> "FinalAccountStubDataInvalid",
                          cause |-> account]
                    ELSE
                    LET notes_res == OutputNotes_new(notes)
                    IN  IF notes_res.tag # "Ok" THEN notes_res
                        ELSE IF parsed.output_notes_hash # notes_res.val.commitment
                        THEN [tag |-> "Err",
                              kind |-> "OutputNotesCommitmentInconsistent",
                              expected |-> notes_res.val.commitment,
                              actual |-> parsed.output_notes_hash]
                        ELSE [tag |-> "Ok",
                              account |-> account.val,
                              output_notes |-> notes_res.val]

\* Mutant of from_transaction_parts: the commitment of the notes is not compared
\* with the commitment on the stack.
from_transaction_parts_noCommitmentCheck(s, m, notes) ==
    LET parsed == parse_output_stack(s)
    IN  IF parsed.tag # "Ok" THEN parsed
        ELSE
        LET entry == AdviceMap_get(m, parsed.final_account_hash)
        IN  IF entry = None
            THEN [tag |-> "Err", kind |-> "FinalAccountDataNotFound"]
            ELSE
            LET final_account_data == group_slice_elements(entry.val)
            IN  IF final_account_data.tag # "Ok" THEN final_account_data
                ELSE
                LET account == parse_final_account_stub(final_account_data.val)
                IN  IF account.tag # "Ok"
                    THEN [tag |-> "Err", kind |-> "FinalAccountStubDataInvalid",
                          cause |-> account]
                    ELSE
                    LET notes_res == OutputNotes_new(notes)
                    IN  IF notes_res.tag # "Ok" THEN notes_res
                        ELSE [tag |-> "Ok",
                              account |-> account.val,
                              output_notes |-> notes_res.val]

from_transaction_parts(s, m, notes) ==
    LET parsed == parse_output_stack(s)
    IN  IF parsed.tag # "Ok" THEN parsed
        ELSE
        LET final_acct_hash == parsed.final_account_hash
            output_notes_hash == parsed.output_notes_hash
            entry == AdviceMap_get(m, final_acct_hash)
        IN  IF entry = None
            THEN [tag |-> "Err", kind |-> "FinalAccountDataNotFound"]
            ELSE
            LET final_account_data == group_slice_elements(entry.val)
            IN  IF final_account_data.tag # "Ok" THEN final_account_data
                ELSE
                LET account == parse_final_account_stub(final_account_data.val)
                IN  IF account.tag # "Ok"
                    THEN [tag |-> "Err", kind |-> "FinalAccountStubDataInvalid",
                          cause |-> account]
                    ELSE
                    LET notes_res == OutputNotes_new(notes)
                    IN  IF notes_res.tag # "Ok" THEN notes_res
                        ELSE IF output_notes_hash # notes_res.val.commitment
                        THEN [tag |-> "Err",
                              kind |-> "OutputNotesCommitmentInconsistent",
                              expected |-> output_notes_hash,
                              actual |-> notes_res.val.commitment]
                        ELSE [tag |-> "Ok",
                              account |-> account.val,
                              output_notes |-> notes_res.val]

---------------------------------------------------------------------------
(* The caller of the transaction output parser *)

\* A word of the stack top that is clean, or dirty in its first or last element
CleanOrDirty == {EMPTY_WORD, <<0, 0, 0, 1>>, <<1, 0, 0, 0>>}

\* Stack outputs of an executed transaction
TxStackOutputs ==
    {[tag |-> "Ok", stack |-> Reverse(fah \o cnc) \o c2 \o c3, overflow_addrs |-> ov] :
        fah \in Digests, cnc \in Digests, c2 \in CleanOrDirty, c3 \in CleanOrDirty,
        ov \in {<<>>, <<1>>}}

\* Advice entries: up to ACCT_DATA_MEM_SIZE + MaxExtraWords words, whole or
\* with 1..3 elements more, filled with consecutive values from a seed.
AdviceData ==
    {[i \in 1..(WORD_SIZE * w + e) |-> seed + i] :
        w \in 0..(ACCT_DATA_MEM_SIZE + MaxExtraWords), e \in 0..(WORD_SIZE - 1),
        seed \in FeltVals}

\* Advice maps with no entry or with one entry
AdviceMaps == {NoMap} \cup {[k \in {key} |-> data] : key \in Digests, data \in AdviceData}

NoteIds == 1..MaxNoteId

\* Lists of at most two notes, given by their ids
NoteLists == {<<>>} \cup {<<x>> : x \in NoteIds} \cup {<<x, y>> : x \in NoteIds, y \in NoteIds}

\* The VM hands over the stack outputs and the advice map of an executed
\* transaction; the host supplies the notes it recorded.
ExecuteTransaction ==
    /\ pc = "init"
    /\ \E s \in TxStackOutputs, m \in AdviceMaps, notes \in NoteLists :
          /\ stack' = s
          /\ adv_map' = m
          /\ output_notes' = notes
    /\ args' = [op |-> "from_transaction_parts"]
    /\ pc' = "executed"
    /\ UNCHANGED result

FromTransactionParts ==
    /\ pc = "executed"
    /\ args.op = "from_transaction_parts"
    /\ result' = from_transaction_parts(stack, adv_map, output_notes)
    /\ pc' = "done"
    /\ UNCHANGED <<args, stack, adv_map, output_notes>>

Init == StackInit

Next == ExecuteTransaction \/ FromTransactionParts

Spec == Init /\ [][Next]_vars

---------------------------------------------------------------------------
(* Properties of the stack builders and of the stack parser *)

\* The sequence build_input_stack appended, in append order
Appended == Reverse(result.values)

\* The stack top is clean: words 3 and 4 are zero and there is no overflow
StackClean ==
    /\ \A i \in 9..16 : stack.stack[i] = 0
    /\ stack.overflow_addrs = <<>>

\* The commitment words as they lie on the stack, read element by element
StackCNC == <<stack.stack[4], stack.stack[3], stack.stack[2], stack.stack[1]>>

StackFAH == <<stack.stack[8], stack.stack[7], stack.stack[6], stack.stack[5]>>

\* C1: parsing the stack built from (a, b) succeeds and returns a as the final
\* account hash and b as the output notes commitment, element for element.
C1_RoundTrip ==
    (pc = "parsed" /\ args.op = "build_output_stack") =>
        /\ result.tag = "Ok"
        /\ \A i \in 1..4 : result.final_account_hash[i] = args.final_acct_hash[i]
        /\ \A i \in 1..4 : result.output_notes_hash[i] = args.output_notes_hash[i]

C1_Witness ==
    /\ pc = "parsed"
    /\ args.op = "build_output_stack"
    /\ args.final_acct_hash = DigestOf(1)
    /\ args.output_notes_hash = DigestOf(2)
    /\ result.tag = "Ok"
    /\ result.final_account_hash = <<1, 2, 3, 4>>

\* C2: for a kernel procedure count below 2^16 the built input stack has 18
\* elements, appended as kernel hash, count, input notes hash, initial account
\* hash, account id, block hash, each digest in its own order.
C2_InputLayout ==
    (pc = "input_built" /\ args.kernel[1] < U16_MODULUS) =>
        /\ Len(Appended) = 18
        /\ \A i \in 1..4 : Appended[i] = args.kernel[2][i]
        /\ Appended[5] = args.kernel[1]
        /\ \A i \in 1..4 : Appended[5 + i] = args.input_notes_hash[i]
        /\ \A i \in 1..4 : Appended[9 + i] = args.init_acct_hash[i]
        /\ Appended[14] = args.acct_id
        /\ \A i \in 1..4 : Appended[14 + i] = args.block_hash[i]

C2_Witness ==
    /\ pc = "input_built"
    /\ args.acct_id = 7
    /\ args.init_acct_hash = EMPTY_WORD
    /\ args.input_notes_hash = DigestOf(1)
    /\ args.block_hash = DigestOf(2)
    /\ args.kernel = <<3, DigestOf(2)>>
    /\ Appended = <<5, 6, 7, 8, 3, 1, 2, 3, 4, 0, 0, 0, 0, 7, 5, 6, 7, 8>>

\* C3: a stack with a non-zero element at offsets 8..15 or with overflow
\* addresses is rejected with OutputStackInvalid, whatever its first two words.
C3_UncleanRejected ==
    (pc = "parsed" /\ ~StackClean) =>
        /\ result.tag = "Err"
        /\ result.kind = "OutputStackInvalid"

C3_Witness ==
    /\ pc = "parsed"
    /\ args.op = "execute"
    /\ \A i \in 9..15 : stack.stack[i] = 0
    /\ stack.stack[16] # 0
    /\ stack.overflow_addrs = <<>>
    /\ StackFAH = DigestOf(1)
    /\ result.tag = "Err"

\* C8: the element at position 4 of the built input stack is the number of
\* kernel procedures, for every count.
C8_KernelProcsLenIsCount ==
    pc = "input_built" => Appended[5] = args.kernel[1]

---------------------------------------------------------------------------
(* Properties of the transaction output parser *)

\* No note id occurs twice in the supplied list
NotesDistinct ==
    \A i \in 1..Len(output_notes) : \A j \in 1..Len(output_notes) :
        output_notes[i] = output_notes[j] => i = j

\* The advice entry under the final account hash holds exactly one stub
EntryDecodable ==
    /\ StackFAH \in DOMAIN adv_map
    /\ Len(adv_map[StackFAH]) = WORD_SIZE * ACCT_DATA_MEM_SIZE

\* C4 as stated: with no advice entry under the final account hash the call
\* fails with FinalAccountDataNotFound, for every output stack and note list.
C4_Original ==
    (pc = "done" /\ StackFAH \notin DOMAIN adv_map) =>
        /\ result.tag = "Err"
        /\ result.kind = "FinalAccountDataNotFound"

\* C4 amended: with a clean stack (third and fourth words zero, no overflow)
\* and no advice entry under the final account hash the call fails with
\* FinalAccountDataNotFound, whatever note list is supplied.
C4_CleanStackDataNotFound ==
    (pc = "done" /\ StackClean /\ StackFAH \notin DOMAIN adv_map) =>
        /\ result.tag = "Err"
        /\ result.kind = "FinalAccountDataNotFound"

C4_Witness ==
    /\ pc = "done"
    /\ StackClean
    /\ StackFAH = DigestOf(1)
    /\ DOMAIN adv_map = {DigestOf(2)}
    /\ output_notes = <<1, 1>>
    /\ result.tag = "Err"
    /\ result.kind = "FinalAccountDataNotFound"

\* C5: with a clean stack, a decodable advice entry and an accepted note list
\* whose commitment differs from the commitment word on the stack, the call
\* fails with OutputNotesCommitmentInconsistent(expected, actual): expected is
\* the stack's word, actual the commitment recomputed from the notes.
C5_CommitmentMismatch ==
    (/\ pc = "done"
     /\ StackClean
     /\ EntryDecodable
     /\ NotesDistinct
     /\ build_output_notes_commitment(output_notes) # StackCNC) =>
        /\ result.tag = "Err"
        /\ result.kind = "OutputNotesCommitmentInconsistent"
        /\ result.expected = StackCNC
        /\ result.actual = build_output_notes_commitment(output_notes)

C5_Witness ==
    /\ pc = "done"
    /\ StackClean
    /\ EntryDecodable
    /\ output_notes = <<1, 2>>
    /\ StackCNC = DigestOf(1)
    /\ result.tag = "Err"
    /\ result.kind = "OutputNotesCommitmentInconsistent"
    /\ result.expected # result.actual

\* C6: whenever TransactionOutputs is returned, the stack is clean, the advice
\* map has an entry under the stack's final account hash and the returned
\* account is the stub of exactly that entry, and the returned notes are the
\* supplied ones with the commitment that is on the stack.
C6_AllOrNothing ==
    (pc = "done" /\ result.tag = "Ok") =>
        /\ StackClean
        /\ EntryDecodable
        /\ \A w \in 1..ACCT_DATA_MEM_SIZE : \A i \in 1..WORD_SIZE :
              result.account.words[w][i] = adv_map[StackFAH][WORD_SIZE * (w - 1) + i]
        /\ NotesDistinct
        /\ result.output_notes.notes = output_notes
        /\ result.output_notes.commitment = StackCNC
        /\ build_output_notes_commitment(output_notes) = StackCNC

C6_Witness ==
    /\ pc = "done"
    /\ result.tag = "Ok"
    /\ output_notes = <<2, 1>>
    /\ StackFAH = DigestOf(2)
    /\ result.account.words[1] = <<2, 3, 4, 5>>

\* C9: with a clean stack and an advice entry whose length is no multiple of 4
\* the call fails with the error value FinalAccountStubDataInvalid.
C9_UnalignedDataIsError ==
    (/\ pc = "done"
     /\ StackClean
     /\ StackFAH \in DOMAIN adv_map
     /\ Len(adv_map[StackFAH]) % WORD_SIZE # 0) =>
        /\ result.tag = "Err"
        /\ result.kind = "FinalAccountStubDataInvalid"

\* C10: the call reports the error of the first failing check in the order
\* third word, fourth word, overflow, advice entry missing, stub decoding,
\* note collection, commitment; and succeeds when none fails.
C10_CheckOrder ==
    pc = "done" =>
        IF \E i \in 9..12 : stack.stack[i] # 0
        THEN result = OutputStackInvalid("Third word on output stack should consist only of ZEROs")
        ELSE IF \E i \in 13..16 : stack.stack[i] # 0
        THEN result = OutputStackInvalid("Fourth word on output stack should consist only of ZEROs")
        ELSE IF stack.overflow_addrs # <<>>
        THEN result = OutputStackInvalid("Output stack should not have overflow addresses")
        ELSE IF StackFAH \notin DOMAIN adv_map
        THEN result.tag = "Err" /\ result.kind = "FinalAccountDataNotFound"
        ELSE IF ~EntryDecodable
        THEN result.tag = "Err" /\ result.kind = "FinalAccountStubDataInvalid"
        ELSE IF ~NotesDistinct
        THEN result.tag = "Err" /\ result.kind = "DuplicateOutputNote"
        ELSE IF build_output_notes_commitment(output_notes) # StackCNC
        THEN result.tag = "Err" /\ result.kind = "OutputNotesCommitmentInconsistent"
        ELSE result.tag = "Ok"

=============================================================================
